---------------------------- MODULE Spec2Model ----------------------------
(***************************************************************************)
(* terraform-moved-remover: the batch driver (main), processFile and the   *)
(* document operations it uses.                                            *)
(*                                                                         *)
(* Two programs live in the repository:                                    *)
(*   prog = "tmr"  cmd/terraform-moved-remover (src/unnamed/part_000):     *)
(*                 removal + hclwrite.Format + dry-run;                    *)
(*   prog = "cmd"  src/cmd/main.go: removal only, no flags.                *)
(*                                                                         *)
(* File bytes are modelled as a sequence of lines, each line one of the    *)
(* strings of Lines (a line carries its terminating newline).              *)
(***************************************************************************)
EXTENDS Integers, Sequences, FiniteSets, TLC

VARIABLES
    prog,      \* which main package runs: "tmr" | "cmd" | "none" (normalizer only)
    files,     \* result of findTerraformFiles: the paths, here 1..Len(disk)
    disk,      \* path -> bytes of the file on disk
    orig,      \* disk at the start of the run (history, never changes)
    stats,     \* the Stats struct
    pc,        \* position of main
    i,         \* index of the next file of the batch loop
    log,       \* history: one record per processFile call, in call order
    normIn,    \* normalizer harness: input text
    normOut    \* normalizer harness: output text

vars == <<prog, files, disk, orig, stats, pc, i, log, normIn, normOut>>

(***************************************************************************)
(* Bounds                                                                  *)
(***************************************************************************)
MaxLen == 4      \* lines of an enumerated single-file document
MaxFiles == 2    \* files of an enumerated batch
MaxText == 6     \* lines of an enumerated normalizer input

(***************************************************************************)
(* Lines of the configuration language                                     *)
(***************************************************************************)
\* The lines the enumerated documents are made of. "Moved {" opens a block of
\* another type that differs from the target kind only in case.
Lines ==
    { "", "# moved {}", "moved {}", "moved {", "Moved {", "}", "a = 1", "a  =  1" }

TextLines == { "", " \t", "x = 1" }

IsBlank(l) == l \in { "", " \t" }
IsComment(l) == l = "# moved {}"
IsAttr(l) == l \in { "a = 1", "a  =  1" }
IsOpen(l) == l \in { "moved {", "Moved {", "resource {" }
IsClose(l) == l = "}"
IsOneLine(l) == l \in { "moved {}", "Moved {}" }

BlockType(l) ==
    CASE l \in { "moved {}", "moved {" } -> "moved"
      [] l \in { "Moved {}", "Moved {" } -> "Moved"
      [] l = "resource {" -> "resource"
      [] OTHER -> ""

\* All texts of at most n lines over the alphabet A.
TextsUpTo(A, n) == UNION { [1..k -> A] : k \in 0..n }

(***************************************************************************)
(* hclwrite.ParseConfig                                                    *)
(***************************************************************************)
\* Nesting depth after the first k lines.
Depth(text, k) ==
    Cardinality({ j \in 1..k : IsOpen(text[j]) })
        - Cardinality({ j \in 1..k : IsClose(text[j]) })

Balanced(text) ==
    /\ \A k \in 1..Len(text) : Depth(text, k) >= 0
    /\ Depth(text, Len(text)) = 0

\* Lines j < k are items of the same body.
SameBody(text, j, k) ==
    /\ Depth(text, j - 1) = Depth(text, k - 1)
    /\ \A m \in j..(k - 1) : Depth(text, m) >= Depth(text, j - 1)

\* hclsyntax rejects a body that sets the same argument twice.
AttributeRedefined(text) ==
    \E j \in 1..Len(text), k \in 1..Len(text) :
        /\ j < k
        /\ IsAttr(text[j])
        /\ IsAttr(text[k])
        /\ SameBody(text, j, k)

\* The line that closes the block opened on line k.
MatchClose(text, k) ==
    IF IsOneLine(text[k]) THEN k
    ELSE CHOOSE m \in k..Len(text) :
            /\ Depth(text, m) = Depth(text, k - 1)
            /\ \A n \in k..(m - 1) : Depth(text, n) > Depth(text, k - 1)

CommentNodes(lead) ==
    [n \in 1..Len(lead) |->
        [kind |-> "comment", type |-> "", lines |-> <<lead[n]>>, lead |-> 0]]

\* The top-level items of a body. A block or attribute node owns the comment
\* lines directly above it (its lead comments) and every line up to its
\* closing brace; blank lines and other comments are tokens of the body.
RECURSIVE parseBody(_, _, _, _)
parseBody(text, k, lead, acc) ==
    IF k > Len(text) THEN acc \o CommentNodes(lead)
    ELSE
        LET l == text[k] IN
        IF IsComment(l) THEN parseBody(text, k + 1, Append(lead, l), acc)
        ELSE IF IsBlank(l) THEN
            parseBody(text, k + 1, <<>>,
                (acc \o CommentNodes(lead)) \o
                    <<[kind |-> "newline", type |-> "", lines |-> <<l>>, lead |-> 0]>>)
        ELSE IF IsAttr(l) THEN
            parseBody(text, k + 1, <<>>,
                Append(acc, [kind |-> "attribute", type |-> "",
                             lines |-> Append(lead, l), lead |-> Len(lead)]))
        ELSE
            LET m == MatchClose(text, k) IN
            parseBody(text, m + 1, <<>>,
                Append(acc, [kind |-> "block", type |-> BlockType(l),
                             lines |-> lead \o SubSeq(text, k, m),
                             lead |-> Len(lead)]))

\* Node identity: the node's position in the freshly parsed body.
WithIds(nodes) ==
    [n \in 1..Len(nodes) |->
        [id |-> n, kind |-> nodes[n].kind, type |-> nodes[n].type,
         lines |-> nodes[n].lines, lead |-> nodes[n].lead]]

ParseConfig(content) ==
    IF Balanced(content) /\ ~AttributeRedefined(content)
    THEN [ok |-> TRUE, body |-> WithIds(parseBody(content, 1, <<>>, <<>>))]
    ELSE [ok |-> FALSE, body |-> <<>>]

(***************************************************************************)
(* hclwrite.Body / File operations                                         *)
(***************************************************************************)
IsBlockNode(n) == n.kind = "block"

\* body.Blocks(): a fresh slice of the body's block nodes.
Blocks(body) == SelectSeq(body, IsBlockNode)

\* body.RemoveBlock(block): detach the node with that identity.
RemoveBlock(body, block) ==
    LET Keep(n) == n.id # block.id IN SelectSeq(body, Keep)

RECURSIVE Flatten(_)
Flatten(seqs) ==
    IF seqs = <<>> THEN <<>> ELSE Head(seqs) \o Flatten(Tail(seqs))

\* Mutant: the rendering loses the blank lines between the nodes.
BytesNoBlank(body) ==
    LET NotNewline(n) == n.kind # "newline"
        kept == SelectSeq(body, NotNewline)
    IN Flatten([n \in 1..Len(kept) |-> kept[n].lines])

\* file.Bytes(): the tokens of the remaining nodes, in order.
Bytes(body) == Flatten([n \in 1..Len(body) |-> body[n].lines])

FormatLine(l) == IF l = "a  =  1" THEN "a = 1" ELSE l

\* hclwrite.Format: canonical spacing inside each line; lines are neither
\* added nor dropped, blank lines and comments are kept.
Format(text) == [n \in 1..Len(text) |-> FormatLine(text[n])]


(***************************************************************************)
(* Whitespace normalizer (Stats.NormalizeWhitespace). The tests call it    *)
(* through processFile; its code is not among the source files, so it is   *)
(* modelled from the specification, section 4.2.                           *)
(***************************************************************************)
\* Last line of the run of blank lines that starts on line k.
RunEnd(text, k) ==
    CHOOSE e \in k..Len(text) :
        /\ \A n \in k..e : IsBlank(text[n])
        /\ (e = Len(text) \/ ~IsBlank(text[e + 1]))

\* Mutant: a run of two blank lines is collapsed as well.
RECURSIVE normalizeFromTwo(_, _, _)
normalizeFromTwo(text, k, acc) ==
    IF k > Len(text) THEN acc
    ELSE IF ~IsBlank(text[k]) THEN normalizeFromTwo(text, k + 1, Append(acc, text[k]))
    ELSE
        LET e == RunEnd(text, k) IN
        normalizeFromTwo(text, e + 1,
            IF e - k + 1 >= 2 THEN Append(acc, "") ELSE acc \o SubSeq(text, k, e))

normalizeTwo(text) == normalizeFromTwo(text, 1, <<>>)

\* Mutant: every three consecutive blank lines are replaced by one, left to
\* right, so what is left of a longer run is not looked at again.
RECURSIVE normalizeFromChunks(_, _, _)
normalizeFromChunks(text, k, acc) ==
    IF k > Len(text) THEN acc
    ELSE IF ~IsBlank(text[k]) THEN normalizeFromChunks(text, k + 1, Append(acc, text[k]))
    ELSE
        LET e == RunEnd(text, k) IN
        IF e - k + 1 >= 3 THEN normalizeFromChunks(text, k + 3, Append(acc, ""))
        ELSE normalizeFromChunks(text, e + 1, acc \o SubSeq(text, k, e))

normalizeChunks(text) == normalizeFromChunks(text, 1, <<>>)

RECURSIVE normalizeFrom(_, _, _)
normalizeFrom(text, k, acc) ==
    IF k > Len(text) THEN acc
    ELSE IF ~IsBlank(text[k]) THEN normalizeFrom(text, k + 1, Append(acc, text[k]))
    ELSE
        LET e == RunEnd(text, k) IN
        normalizeFrom(text, e + 1,
            IF e - k + 1 >= 3 THEN Append(acc, "") ELSE acc \o SubSeq(text, k, e))

normalize(text) == normalizeFrom(text, 1, <<>>)

\* Mutant: the flag is not looked at.
NormalizeStepUngated(st, formatted) == normalize(formatted)

\* The step of processFile that the NormalizeWhitespace flag gates: it runs on
\* the formatted bytes of a file that is about to be rewritten.
NormalizeStep(st, formatted) ==
    IF st.NormalizeWhitespace THEN normalize(formatted) ELSE formatted

(***************************************************************************)
(* processFile: the removal loop                                           *)
(***************************************************************************)
\* Mutant: the type is compared without regard to case.
IsTargetAnyCase(block) == block.type \in { "moved", "Moved" }

\* block.Type() == "moved"
IsTarget(block) == block.type = "moved"

\* for _, block := range body.Blocks() { if ... { body.RemoveBlock(block) ... } }
\* blocks is the slice taken before the loop; visited records the blocks the
\* loop body evaluated.
RECURSIVE removeLoop(_, _, _, _)
removeLoop(body, blocks, k, acc) ==
    IF k > Len(blocks) THEN [acc EXCEPT !.body = body]
    ELSE
        LET seen == [acc EXCEPT !.visited = Append(@, blocks[k].id)] IN
        IF IsTarget(blocks[k])
        THEN removeLoop(RemoveBlock(body, blocks[k]), blocks, k + 1,
                [seen EXCEPT !.movedBlocksCount = @ + 1, !.fileModified = TRUE])
        ELSE removeLoop(body, blocks, k + 1, seen)

\* Mutant: the loop walks the live block list by index while it removes from it.
RECURSIVE removeLoopLive(_, _, _)
removeLoopLive(body, k, acc) ==
    LET blocks == Blocks(body) IN
    IF k > Len(blocks) THEN [acc EXCEPT !.body = body]
    ELSE
        LET seen == [acc EXCEPT !.visited = Append(@, blocks[k].id)] IN
        IF IsTarget(blocks[k])
        THEN removeLoopLive(RemoveBlock(body, blocks[k]), k + 1,
                [seen EXCEPT !.movedBlocksCount = @ + 1, !.fileModified = TRUE])
        ELSE removeLoopLive(body, k + 1, seen)

RemoveMovedBlocksLive(body) ==
    removeLoopLive(body, 1,
        [body |-> body, movedBlocksCount |-> 0, fileModified |-> FALSE,
         visited |-> <<>>])

RemoveMovedBlocks(body) ==
    removeLoop(body, Blocks(body), 1,
        [body |-> body, movedBlocksCount |-> 0, fileModified |-> FALSE,
         visited |-> <<>>])

(***************************************************************************)
(* os.WriteFile: open with O_TRUNC, write, close. wr is the number of      *)
(* lines that reached the file: Len(data) on success, fewer when the write *)
(* fails part-way, -1 when the open fails and the file is not touched.     *)
(***************************************************************************)
WriteFile(old, data, wr) ==
    IF wr = -1 THEN [err |-> TRUE, bytes |-> old]
    ELSE IF wr < Len(data) THEN [err |-> TRUE, bytes |-> SubSeq(data, 1, wr)]
    ELSE [err |-> FALSE, bytes |-> data]

(***************************************************************************)
(* processFile. readErr and wr are the environment's choices; the result   *)
(* holds the returned error, the new Stats, the new disk and the record    *)
(* of what the call did.                                                   *)
(***************************************************************************)
Outcome(filePath, err, st, dsk, content, loop, out, wrote) ==
    [err |-> err, stats |-> st, disk |-> dsk,
     rec |-> [file |-> filePath, err |-> err, content |-> content,
              visited |-> loop.visited, body |-> loop.body,
              removed |-> loop.movedBlocksCount, out |-> out, wrote |-> wrote,
              before |-> <<>>, after |-> <<>>]]

NoLoop == [body |-> <<>>, movedBlocksCount |-> 0, fileModified |-> FALSE,
           visited |-> <<>>]

\* Mutant: the diagnostics are not looked at.
HasErrorsIgnored(parsed) == FALSE

\* diags.HasErrors()
HasErrors(parsed) == ~parsed.ok

\* Mutant: the dry-run flag is not looked at.
WritesAlwaysEnabled(st) == TRUE

\* if !stats.DryRun
WritesEnabled(st) == ~st.DryRun

\* Mutant: every parsed file is written back.
NeedsWriteAlways(fileModified, formattedContent, content) == TRUE

\* if fileModified || !bytes.Equal(formattedContent, content)
NeedsWrite(fileModified, formattedContent, content) ==
    fileModified \/ formattedContent # content

\* processFile of cmd/terraform-moved-remover. With NormalizeWhitespace unset
\* this is the code of src/unnamed/part_000 line by line. In a dry run the
\* code does not call hclwrite.Format; out then records what it would hold.
\* Mutant: the blocks are counted, the file is not.
CountRemovedOnly(st, fileModified, movedBlocksCount) ==
    [st EXCEPT !.MovedBlocksRemoved = IF fileModified THEN @ + movedBlocksCount ELSE @]

\* Mutant: the count of the file is stored, not added.
CountModifiedAssign(st, fileModified, movedBlocksCount) ==
    [st EXCEPT !.FilesModified = @ + 1,
               !.MovedBlocksRemoved = IF fileModified THEN movedBlocksCount ELSE @]

\* stats.FilesModified++; if fileModified { stats.MovedBlocksRemoved += movedBlocksCount }
CountModified(st, fileModified, movedBlocksCount) ==
    [st EXCEPT !.FilesModified = @ + 1,
               !.MovedBlocksRemoved = IF fileModified THEN @ + movedBlocksCount ELSE @]

processFile(filePath, st, dsk, readErr, wr) ==
    IF readErr THEN Outcome(filePath, "read", st, dsk, <<>>, NoLoop, <<>>, FALSE)
    ELSE
    LET content == dsk[filePath]
        parsed == ParseConfig(content)
    IN
    IF HasErrors(parsed) THEN Outcome(filePath, "parse", st, dsk, content, NoLoop, <<>>, FALSE)
    ELSE
    LET loop == RemoveMovedBlocks(parsed.body)
        st1 == [st EXCEPT !.FilesProcessed = @ + 1]
        formatted == Format(Bytes(loop.body))
        dirty == NeedsWrite(loop.fileModified, formatted, content)
        formattedContent == IF dirty THEN NormalizeStep(st, formatted) ELSE formatted
    IN
    IF WritesEnabled(st) THEN
        IF dirty THEN
            LET st2 == CountModified(st1, loop.fileModified, loop.movedBlocksCount)
                w == WriteFile(content, formattedContent, wr)
            IN Outcome(filePath, IF w.err THEN "write" ELSE "nil", st2,
                       [dsk EXCEPT ![filePath] = w.bytes], content, loop,
                       formattedContent, TRUE)
        ELSE Outcome(filePath, "nil", st1, dsk, content, loop, formattedContent, FALSE)
    ELSE IF loop.fileModified THEN
        Outcome(filePath, "nil",
                [st1 EXCEPT !.FilesModified = @ + 1,
                            !.MovedBlocksRemoved = @ + loop.movedBlocksCount],
                dsk, content, loop, formattedContent, FALSE)
    ELSE Outcome(filePath, "nil", st1, dsk, content, loop, formattedContent, FALSE)

\* src/cmd/main.go
processFileCmd(filePath, st, dsk, readErr, wr) ==
    IF readErr THEN Outcome(filePath, "read", st, dsk, <<>>, NoLoop, <<>>, FALSE)
    ELSE
    LET content == dsk[filePath]
        parsed == ParseConfig(content)
    IN
    IF HasErrors(parsed) THEN Outcome(filePath, "parse", st, dsk, content, NoLoop, <<>>, FALSE)
    ELSE
    LET loop == RemoveMovedBlocks(parsed.body)
        st1 == [st EXCEPT !.FilesProcessed = @ + 1]
        bytes == Bytes(loop.body)
    IN
    IF loop.fileModified THEN
        LET st2 == [st1 EXCEPT !.FilesModified = @ + 1,
                               !.MovedBlocksRemoved = @ + loop.movedBlocksCount]
            w == WriteFile(content, bytes, wr)
        IN Outcome(filePath, IF w.err THEN "write" ELSE "nil", st2,
                   [dsk EXCEPT ![filePath] = w.bytes], content, loop, bytes, TRUE)
    ELSE Outcome(filePath, "nil", st1, dsk, content, loop, bytes, FALSE)

\* The choices of wr that are outcomes of the call: none matters unless it writes.
WriteChoice(r, wr) == IF r.rec.wrote THEN wr <= Len(r.rec.out) ELSE wr = 0

(***************************************************************************)
(* main                                                                    *)
(***************************************************************************)
NewStats(dryRun, normalizeWhitespace) ==
    [FilesProcessed |-> 0, FilesModified |-> 0, MovedBlocksRemoved |-> 0,
     DryRun |-> dryRun, NormalizeWhitespace |-> normalizeWhitespace]

Counters(st) == <<st.FilesProcessed, st.FilesModified, st.MovedBlocksRemoved>>

\* files, err := findTerraformFiles(rootDir); an error ends the run.
findTerraformFiles ==
    /\ pc = "start"
    /\ \E walkErr \in BOOLEAN :
         pc' = IF walkErr THEN "exit" ELSE "loop"
    /\ UNCHANGED <<prog, files, disk, orig, stats, i, log, normIn, normOut>>

\* One iteration of "for _, file := range files": the call and, on an error,
\* the message; the loop goes on to the next file either way.
Iterate(r) ==
    /\ stats' = r.stats
    /\ disk' = r.disk
    /\ log' = Append(log, [r.rec EXCEPT !.before = Counters(stats),
                                        !.after = Counters(r.stats)])
    /\ i' = i + 1
    /\ UNCHANGED <<prog, files, orig, pc, normIn, normOut>>

\* Mutant: the first error ends the batch.
IterateOrAbort(r) ==
    /\ stats' = r.stats
    /\ disk' = r.disk
    /\ log' = Append(log, [r.rec EXCEPT !.before = Counters(stats),
                                        !.after = Counters(r.stats)])
    /\ i' = i + 1
    /\ pc' = IF r.err = "nil" THEN pc ELSE "exit"
    /\ UNCHANGED <<prog, files, orig, normIn, normOut>>

mainLoopAbort ==
    /\ pc = "loop"
    /\ prog = "tmr"
    /\ i <= Len(files)
    /\ \/ IterateOrAbort(processFile(files[i], stats, disk, TRUE, 0))
       \/ \E wr \in -1..Len(disk[files[i]]) :
            LET r == processFile(files[i], stats, disk, FALSE, wr) IN
            /\ WriteChoice(r, wr)
            /\ IterateOrAbort(r)

mainLoop ==
    /\ pc = "loop"
    /\ prog = "tmr"
    /\ i <= Len(files)
    /\ \/ Iterate(processFile(files[i], stats, disk, TRUE, 0))
       \/ \E wr \in -1..Len(disk[files[i]]) :
            LET r == processFile(files[i], stats, disk, FALSE, wr) IN
            /\ WriteChoice(r, wr)
            /\ Iterate(r)

mainLoopCmd ==
    /\ pc = "loop"
    /\ prog = "cmd"
    /\ i <= Len(files)
    /\ \/ Iterate(processFileCmd(files[i], stats, disk, TRUE, 0))
       \/ \E wr \in -1..Len(disk[files[i]]) :
            LET r == processFileCmd(files[i], stats, disk, FALSE, wr) IN
            /\ WriteChoice(r, wr)
            /\ Iterate(r)

\* After the loop: the statistics are printed and main returns.
printStatistics ==
    /\ pc = "loop"
    /\ i > Len(files)
    /\ pc' = "done"
    /\ UNCHANGED <<prog, files, disk, orig, stats, i, log, normIn, normOut>>

\* The normalizer applied to a text on its own.
normalizeText ==
    /\ pc = "text"
    /\ normOut' = normalize(normIn)
    /\ pc' = "normalized"
    /\ UNCHANGED <<prog, files, disk, orig, stats, i, log, normIn>>

(***************************************************************************)
(* Initial states                                                          *)
(***************************************************************************)
\* Documents of the repository's tests and examples, as line sequences.
SampleDocs ==
    { <<>>,
      <<"a = 1">>,
      <<"a  =  1">>,
      <<"a = 1", "", "", "">>,
      <<"}">>,
      <<"# moved {}", "", "moved {", "a = 1", "}">>,
      <<"resource {", "a = 1", "}", "", "moved {}", "", "moved {}", "",
        "moved {}", "", "Moved {}">> }

Configs ==
    { <<"cmd", FALSE, FALSE>> } \cup
    { <<"tmr", d, n>> : d \in BOOLEAN, n \in BOOLEAN }

InitRun(contents, cfg) ==
    /\ prog = cfg[1]
    /\ files = [n \in 1..Len(contents) |-> n]
    /\ disk = contents
    /\ orig = contents
    /\ stats = NewStats(cfg[2], cfg[3])
    /\ pc = "start"
    /\ i = 1
    /\ log = <<>>
    /\ normIn = <<>>
    /\ normOut = <<>>

\* One file holding any document of at most MaxLen lines.
InitDoc ==
    \E doc \in TextsUpTo(Lines, MaxLen), cfg \in Configs : InitRun(<<doc>>, cfg)

\* A batch of at most MaxFiles sample documents.
InitBatch ==
    \E k \in 0..MaxFiles :
        \E contents \in [1..k -> SampleDocs], cfg \in Configs : InitRun(contents, cfg)

InitText ==
    /\ prog = "none"
    /\ files = <<>>
    /\ disk = <<>>
    /\ orig = <<>>
    /\ stats = NewStats(FALSE, TRUE)
    /\ pc = "text"
    /\ i = 1
    /\ log = <<>>
    /\ normIn \in TextsUpTo(TextLines, MaxText)
    /\ normOut = <<>>

Init == InitDoc \/ InitBatch \/ InitText

NextMain == findTerraformFiles \/ mainLoop \/ mainLoopCmd \/ printStatistics

Next == NextMain \/ normalizeText

Spec == Init /\ [][Next]_vars

\* The runs of main over a batch of sample documents.
BatchSpec == InitBatch /\ [][NextMain]_vars

\* main is one thread that runs to completion.
FairSpec == InitBatch /\ [][NextMain]_vars /\ WF_vars(NextMain)

(***************************************************************************)
(* Properties                                                              *)
(***************************************************************************)
\* The calls that got past reading and parsing.
Parsed(e) == e.err \in { "nil", "write" }

TopLevel(text, k) == Depth(text, k - 1) = 0

\* First lines of the top-level blocks of the target kind.
MovedStarts(text) ==
    { k \in 1..Len(text) : TopLevel(text, k) /\ text[k] \in { "moved {}", "moved {" } }

BlockLines(text, s) == s..MatchClose(text, s)

\* The comment lines directly above line s.
LeadLines(text, s) ==
    { k \in 1..(s - 1) : \A j \in k..(s - 1) : IsComment(text[j]) }

\* text without the lines whose numbers are in drop.
Without(text, drop) ==
    LET keep == (1..Len(text)) \ drop
        Nth(n) == CHOOSE k \in keep : Cardinality({ j \in keep : j <= k }) = n
    IN [n \in 1..Cardinality(keep) |-> text[Nth(n)]]

NodeIds(body) == [n \in 1..Len(body) |-> body[n].id]

\* What processFile does remove: exactly the top-level blocks whose type is
\* "moved", each with the comment lines directly above it (its lead comments,
\* part of the block node), counting one per block; blocks of another type,
\* moved blocks nested in another block, attributes, blank lines and every
\* other comment keep their place and are not counted.
RemovesBlocksWithLeadComments ==
    \A n \in 1..Len(log) :
        Parsed(log[n]) =>
            LET text == log[n].content
                starts == MovedStarts(text)
                gone == UNION { LeadLines(text, s) \cup BlockLines(text, s) : s \in starts }
            IN /\ log[n].removed = Cardinality(starts)
               /\ Bytes(log[n].body) = Without(text, gone)

\* C1: processFile removes a node if and only if it is a top-level block whose
\* type is exactly "moved", and counts one per block removed; blocks of another
\* type, moved blocks nested in another block, attributes and comments (a
\* commented-out moved block among them) are never removed and never counted:
\* the rendered body is the input without the lines of those blocks.
C1_RemovesOnlyTopLevelMoved ==
    \A n \in 1..Len(log) :
        Parsed(log[n]) =>
            LET text == log[n].content
                starts == MovedStarts(text)
                gone == UNION { BlockLines(text, s) : s \in starts }
            IN /\ log[n].removed = Cardinality(starts)
               /\ Bytes(log[n].body) = Without(text, gone)

\* C2: the removal loop evaluates every block of the parsed body once, in
\* order; with N top-level moved blocks it removes N; the other top-level
\* nodes stay, in their order.
C2_LoopRemovesEachOnce ==
    \A n \in 1..Len(log) :
        Parsed(log[n]) =>
            LET before == ParseConfig(log[n].content).body
                IsMoved(node) == node.kind = "block" /\ node.type = "moved"
                Stays(node) == ~IsMoved(node)
            IN /\ log[n].visited = NodeIds(SelectSeq(before, IsBlockNode))
               /\ log[n].removed = Len(SelectSeq(before, IsMoved))
               /\ log[n].removed = Cardinality(MovedStarts(log[n].content))
               /\ log[n].body = SelectSeq(before, Stays)

\* Three adjacent moved blocks that are the whole document.
C2_Witness ==
    \E n \in 1..Len(log) :
        /\ Parsed(log[n])
        /\ log[n].content = <<"moved {}", "moved {}", "moved {}">>
        /\ log[n].removed = 3
        /\ log[n].body = <<>>

\* Format leaves the text as it is.
Canonical(text) == Format(text) = text

\* C3: a file without a top-level moved block that is in canonical format is
\* a no-op: the bytes processFile computes equal the input, nothing is
\* written, the file on disk stays as it was, and neither FilesModified nor
\* MovedBlocksRemoved changes.
C3_NoOpSafety ==
    \A n \in 1..Len(log) :
        LET e == log[n] IN
        (/\ Parsed(e)
         /\ MovedStarts(e.content) = {}
         /\ Canonical(e.content))
        => /\ e.out = e.content
           /\ ~e.wrote
           /\ e.err = "nil"
           /\ disk[e.file] = orig[e.file]
           /\ e.after[2] = e.before[2]
           /\ e.after[3] = e.before[3]

\* The empty file and a canonical file that ends in three blank lines, both
\* left alone by a run that may write.
C3_Witness ==
    /\ pc = "done"
    /\ ~stats.DryRun
    /\ \E n \in 1..Len(log) :
         /\ log[n].content = <<>>
         /\ log[n].err = "nil"
         /\ disk[log[n].file] = <<>>
    /\ \E n \in 1..Len(log) :
         /\ log[n].content = <<"a = 1", "", "", "">>
         /\ log[n].err = "nil"
         /\ ~log[n].wrote
         /\ disk[log[n].file] = log[n].content

\* C4: in dry-run mode no file on disk ever differs from what it held before
\* the run, and every file that parses and has N >= 1 top-level moved blocks
\* adds 1 to FilesModified and N to MovedBlocksRemoved.
C4_DryRunWritesNothing ==
    stats.DryRun =>
        /\ disk = orig
        /\ \A n \in 1..Len(log) :
             LET e == log[n]
                 N == Cardinality(MovedStarts(e.content))
             IN (Parsed(e) /\ N >= 1) =>
                    /\ ~e.wrote
                    /\ e.after[2] = e.before[2] + 1
                    /\ e.after[3] = e.before[3] + N

\* A dry run over a file with two or more moved blocks has finished.
C4_Witness ==
    /\ stats.DryRun
    /\ pc = "done"
    /\ \E n \in 1..Len(log) :
         /\ Parsed(log[n])
         /\ Cardinality(MovedStarts(log[n].content)) >= 2
         /\ log[n].after[2] = 1
         /\ disk[log[n].file] = log[n].content

\* The Stats of a run without dry-run over the files contents, every read and
\* write succeeding.
RECURSIVE RealRun(_, _, _)
RealRun(contents, k, st) ==
    IF k > Len(contents) THEN st
    ELSE RealRun(contents, k + 1,
            processFile(k, st, contents, FALSE, Len(contents[k])).stats)

\* C5: when a dry run has finished (no read failed), FilesProcessed,
\* FilesModified and MovedBlocksRemoved are those of a run without dry-run on
\* the same files in which every write succeeds.
C5_DryRunCountsAsRealRun ==
    (/\ pc = "done"
     /\ prog = "tmr"
     /\ stats.DryRun
     /\ \A n \in 1..Len(log) : log[n].err # "read")
    => Counters(stats) =
         Counters(RealRun(orig, 1, NewStats(FALSE, stats.NormalizeWhitespace)))

\* C6: a file whose bytes do not parse makes processFile return the parse
\* error without writing; the file on disk keeps its bytes and the batch
\* goes on to the next file.
C6_ParseFailureLeavesFile ==
    /\ \A n \in 1..Len(log) :
         LET e == log[n] IN
         (e.err # "read" /\ ~ParseConfig(e.content).ok)
         => /\ e.err = "parse"
            /\ ~e.wrote
            /\ disk[e.file] = orig[e.file]
            /\ e.after = e.before
    /\ pc \in { "loop", "done" } => i = Len(log) + 1
    /\ pc = "done" => Len(log) = Len(files)

\* An unparsable first file, and the second file processed after it.
C6_Witness ==
    /\ Len(log) = 2
    /\ log[1].err = "parse"
    /\ log[1].content = <<"}">>
    /\ log[2].err = "nil"
    /\ log[2].removed = 3

\* The files processFile was called for, in call order.
Attempts == [n \in 1..Len(log) |-> log[n].file]

\* C7: after discovery the batch loop calls processFile for the discovered
\* files one by one in discovery order, never twice, whatever a call returns,
\* and main reaches the statistics with every file attempted.
C7_BatchAttemptsEveryFile ==
    /\ [](pc \in { "loop", "done" } => Attempts = SubSeq(files, 1, i - 1))
    /\ (pc = "loop") ~> (pc = "done" /\ Attempts = files)

\* The report is reached after a read, a parse or a write failed on the
\* first file and the second file was processed.
C7_Witness ==
    /\ pc = "done"
    /\ Len(log) = 2
    /\ log[1].err = "write"
    /\ log[2].err = "parse"

\* C8: every file on disk holds its original bytes or the complete output of
\* the processFile call that wrote it.
C8_NoPartialWrites ==
    \A f \in 1..Len(disk) :
        \/ disk[f] = orig[f]
        \/ \E n \in 1..Len(log) :
             /\ log[n].file = f
             /\ log[n].wrote
             /\ disk[f] = log[n].out

\* C9: whenever processFile writes, the bytes it writes differ from the
\* bytes it read.
C9_WritesOnlyOnDiff ==
    \A n \in 1..Len(log) : log[n].wrote => log[n].out # log[n].content

\* A file without moved blocks written back because its format changed.
C9_Witness ==
    \E n \in 1..Len(log) :
        /\ log[n].wrote
        /\ log[n].err = "nil"
        /\ log[n].removed = 0
        /\ log[n].content = <<"a  =  1">>
        /\ disk[log[n].file] = <<"a = 1">>

NonBlankLines(text) ==
    LET NotBlank(l) == ~IsBlank(l) IN SelectSeq(text, NotBlank)

\* Lengths of the blank-line runs of text: before the first non-blank line,
\* between consecutive non-blank lines, after the last one (0 where none).
RECURSIVE BlankRuns(_)
BlankRuns(text) ==
    IF \A k \in 1..Len(text) : IsBlank(text[k]) THEN <<Len(text)>>
    ELSE
        LET f == CHOOSE k \in 1..Len(text) :
                    ~IsBlank(text[k]) /\ \A j \in 1..(k - 1) : IsBlank(text[j])
        IN <<f - 1>> \o BlankRuns(SubSeq(text, f + 1, Len(text)))

LongestBlankRun(text) ==
    LET runs == BlankRuns(text) IN
    CHOOSE m \in { runs[k] : k \in 1..Len(runs) } :
        \A k \in 1..Len(runs) : runs[k] <= m

\* C10: normalize turns every maximal run of 3 or more blank lines into one
\* blank line and leaves runs of 1 or 2 and the non-blank lines as they are,
\* in order; so no text processFile writes with NormalizeWhitespace set has a
\* run of 3 or more blank lines.
C10_CollapsesLongRuns ==
    /\ pc = "normalized" =>
         LET rin == BlankRuns(normIn)
             rout == BlankRuns(normOut)
         IN /\ NonBlankLines(normOut) = NonBlankLines(normIn)
            /\ rout = [k \in 1..Len(rin) |-> IF rin[k] >= 3 THEN 1 ELSE rin[k]]
    /\ stats.NormalizeWhitespace =>
         \A n \in 1..Len(log) : log[n].wrote => LongestBlankRun(log[n].out) < 3

\* A run of three blank lines became one and a run of two was kept.
C10_Witness ==
    /\ pc = "normalized"
    /\ normIn = <<"", " \t", "", "x = 1", "", "">>
    /\ normOut = <<"", "x = 1", "", "">>

\* C11: normalize is idempotent: normalizing a text that normalize returned
\* gives that text back, for every text of the harness and for every text
\* processFile writes with NormalizeWhitespace set.
C11_NormalizeIdempotent ==
    /\ pc = "normalized" => normalize(normOut) = normOut
    /\ stats.NormalizeWhitespace =>
         \A n \in 1..Len(log) : log[n].wrote => normalize(log[n].out) = log[n].out

\* A run of five blank lines was collapsed; what is left has nothing to collapse.
C11_Witness ==
    /\ pc = "normalized"
    /\ normIn = <<"", "", " \t", "", "", "x = 1">>
    /\ normOut = <<"", "x = 1">>

\* The formatted text of a document once its top-level moved blocks, each with
\* its lead comments, are taken out; every other line, blank ones included, stays.
RenderedAfterRemoval(text) ==
    LET starts == MovedStarts(text)
        gone == UNION { LeadLines(text, s) \cup BlockLines(text, s) : s \in starts }
    IN Format(Without(text, gone))

\* C12: the NormalizeWhitespace flag gates the normalizer entirely. With the
\* flag off what processFile writes is exactly the canonical rendering of the
\* document after block removal, the blank-line runs the removed blocks left
\* included; with the flag on, whenever that rendering has a run of 3 or more
\* blank lines, the longest blank-line run of what is written is strictly
\* shorter.
C12_FlagGatesNormalizer ==
    prog = "tmr" =>
        \A n \in 1..Len(log) :
            log[n].wrote =>
                LET off == RenderedAfterRemoval(log[n].content) IN
                IF stats.NormalizeWhitespace
                THEN LongestBlankRun(off) >= 3 =>
                         LongestBlankRun(log[n].out) < LongestBlankRun(off)
                ELSE log[n].out = off

\* With the flag on, the three blank lines around a removed block became one.
C12_Witness ==
    \E n \in 1..Len(log) :
        /\ prog = "tmr" /\ stats.NormalizeWhitespace
        /\ log[n].content = <<"", "moved {}", "", "">>
        /\ log[n].wrote /\ log[n].err = "nil"
        /\ LongestBlankRun(RenderedAfterRemoval(log[n].content)) = 3
        /\ log[n].out = <<"">>
        /\ disk[log[n].file] = <<"">>

\* With the flag off, the same three blank lines are written as they are.
C12_WitnessOff ==
    \E n \in 1..Len(log) :
        /\ prog = "tmr" /\ ~stats.NormalizeWhitespace
        /\ log[n].content = <<"", "moved {}", "", "">>
        /\ log[n].wrote /\ log[n].err = "nil"
        /\ disk[log[n].file] = <<"", "", "">>

\* C13: a call of processFile that finds blocks to remove reports the file
\* modified: it adds to MovedBlocksRemoved only if it adds 1 to FilesModified.
\* So at every point of a run MovedBlocksRemoved > 0 implies FilesModified > 0,
\* and FilesModified <= FilesProcessed. (The converse does not hold: see the
\* witness.)
C13_RemovedImpliesModified ==
    /\ \A n \in 1..Len(log) :
          LET e == log[n] IN
          /\ (Parsed(e) /\ e.removed > 0) => e.after[2] = e.before[2] + 1
          /\ e.after[3] > e.before[3] => e.after[2] = e.before[2] + 1
          /\ e.after[2] > e.before[2] => e.after[1] = e.before[1] + 1
    /\ stats.MovedBlocksRemoved > 0 => stats.FilesModified > 0
    /\ stats.FilesModified <= stats.FilesProcessed

\* One file lost a block and was counted modified; another was counted
\* modified for its formatting alone, with no block removed.
C13_Witness ==
    \E m, n \in 1..Len(log) :
        /\ log[m].removed > 0
        /\ log[m].after[3] = log[m].before[3] + log[m].removed
        /\ log[m].after[2] = log[m].before[2] + 1
        /\ log[n].removed = 0
        /\ log[n].after[2] = log[n].before[2] + 1
        /\ log[n].after[3] = log[n].before[3]
        /\ stats.FilesModified = 2 /\ stats.FilesProcessed = 2

\* The call of the program that is running.
Process(filePath, st, dsk, readErr, wr) ==
    IF prog = "cmd" THEN processFileCmd(filePath, st, dsk, readErr, wr)
    ELSE processFile(filePath, st, dsk, readErr, wr)

\* Whether the read of file f failed in this run.
ReadFailed(f) == \E n \in 1..Len(log) : log[n].file = f /\ log[n].err = "read"

\* The statistics after the files of order, taken from their original bytes
\* in that order, with the read failures of this run.
RECURSIVE RunInOrder(_, _, _)
RunInOrder(order, k, st) ==
    IF k > Len(order) THEN st
    ELSE RunInOrder(order, k + 1,
            Process(order[k], st, orig, ReadFailed(order[k]), Len(orig[order[k]])).stats)

\* What a call adds to the three counters.
Contribution(e) ==
    <<e.after[1] - e.before[1], e.after[2] - e.before[2], e.after[3] - e.before[3]>>

\* C14: the counters are additive. When a batch of two or more files is
\* finished, FilesProcessed, FilesModified and MovedBlocksRemoved are those of
\* the same files processed in any other order, and what each file after the
\* first added to them is what it adds when it is processed alone from
\* counters at zero. The orders are compared for the runs in which no write
\* failed; the second part holds in every run, a failed write included.
C14_AggregateAdditivity ==
    (pc = "done" /\ Len(files) >= 2) =>
        LET zero == NewStats(stats.DryRun, stats.NormalizeWhitespace) IN
        /\ (\A n \in 1..Len(log) : log[n].err # "write") =>
              \A perm \in Permutations(1..Len(files)) :
                  Counters(RunInOrder([k \in 1..Len(files) |-> files[perm[k]]], 1, zero))
                      = Counters(stats)
        /\ \A n \in 2..Len(log) :
              Contribution(log[n]) = Counters(RunInOrder(<<log[n].file>>, 1, zero))

\* A batch of two files that add different amounts: 1 block, then 3 blocks.
C14_Witness ==
    /\ pc = "done"
    /\ Len(log) = 2
    /\ Contribution(log[1]) = <<1, 1, 1>>
    /\ Contribution(log[2]) = <<1, 1, 3>>
    /\ Counters(stats) = <<2, 2, 4>>

\* What "compute always, write only on diff" asks of one call that parsed its
\* file: what it writes is in canonical format, and a file with no moved block
\* whose canonical rendering differs from its bytes is rewritten with the
\* formatted bytes (normalized when NormalizeWhitespace is set), which are the
\* file's content when the write succeeds, and adds 1 to FilesProcessed and to
\* FilesModified and nothing to MovedBlocksRemoved.
FormatsAndWritesOnDiff(e) ==
    /\ e.wrote => Canonical(e.out)
    /\ (e.removed = 0 /\ ~Canonical(e.content)) =>
          /\ e.wrote
          /\ e.out = NormalizeStep(stats, Format(e.content))
          /\ e.err = "nil" => disk[e.file] = e.out
          /\ Contribution(e) = <<1, 1, 0>>

\* cmd/terraform-moved-remover/main.go does so in every run without dry-run.
FormatsAndWritesOnDiffTmr ==
    (prog = "tmr" /\ ~stats.DryRun) =>
        \A n \in 1..Len(log) : Parsed(log[n]) => FormatsAndWritesOnDiff(log[n])

\* C15: compute always, write only on diff. In a run without dry-run every
\* file that parsed is re-rendered in canonical format, and a file with zero
\* moved blocks whose canonical rendering differs from its bytes is rewritten
\* with the formatted bytes and counted once in FilesModified, with
\* MovedBlocksRemoved unchanged.
C15_ComputeAlwaysWriteOnDiff ==
    ~stats.DryRun =>
        \A n \in 1..Len(log) : Parsed(log[n]) => FormatsAndWritesOnDiff(log[n])

\* C16: the normalizer never touches a file that is left alone. A file from
\* which no block was removed and which is not rewritten keeps every line and
\* so every blank-line run it had, runs of 3 or more included; and a file with
\* no moved block that is in canonical format is not rewritten, whatever its
\* blank-line runs and whatever the NormalizeWhitespace flag.
C16_UntouchedKeepsBlankRuns ==
    \A n \in 1..Len(log) :
        LET e == log[n] IN
        (Parsed(e) /\ e.removed = 0) =>
            /\ ~e.wrote =>
                  /\ disk[e.file] = e.content
                  /\ BlankRuns(disk[e.file]) = BlankRuns(orig[e.file])
            /\ Canonical(e.content) => ~e.wrote

\* With NormalizeWhitespace set, a canonical file ending in three blank lines
\* was processed and still has them.
C16_Witness ==
    \E n \in 1..Len(log) :
        /\ prog = "tmr" /\ stats.NormalizeWhitespace /\ ~stats.DryRun
        /\ log[n].content = <<"a = 1", "", "", "">>
        /\ log[n].removed = 0 /\ ~log[n].wrote /\ log[n].err = "nil"
        /\ disk[log[n].file] = <<"a = 1", "", "", "">>
        /\ LongestBlankRun(disk[log[n].file]) = 3

\* The calls whose file could be read and is a well-formed document.
WellFormed(text) == Balanced(text) /\ ~AttributeRedefined(text)

ReadAndParsed ==
    { n \in 1..Len(log) : log[n].err # "read" /\ WellFormed(log[n].content) }

\* C17: a call of processFile that fails to read or to parse its file changes
\* none of FilesProcessed, FilesModified, MovedBlocksRemoved; so at every point
\* of a run FilesProcessed is the number of files read and parsed so far, not
\* the number of files found or attempted.
C17_EarlyFailureLeavesStats ==
    /\ \A n \in 1..Len(log) :
          n \notin ReadAndParsed =>
              /\ log[n].after = log[n].before
              /\ log[n].err \in { "read", "parse" }
    /\ stats.FilesProcessed = Cardinality(ReadAndParsed)
    /\ stats.FilesProcessed <= Len(log)

\* Two files were found; one could not be read and the other does not
\* parse: the batch is done and nothing was counted.
C17_Witness ==
    /\ pc = "done"
    /\ Len(files) = 2
    /\ log[1].err = "read"
    /\ log[2].err = "parse" /\ log[2].content = <<"}">>
    /\ Counters(stats) = <<0, 0, 0>>

=============================================================================
